---- MODULE Spec2Model ----
(***************************************************************************)
(* Model of the crate `sequential`: the generator Sequence<T> of           *)
(* src/src/sequence.rs over the numeric capability SeqNum of               *)
(* src/src/seq_num.rs.                                                     *)
(*                                                                         *)
(* A Sequence is the record [next, incr, max].  Every method is a pure     *)
(* operator on that record, translated from its code; the actions apply    *)
(* the operators to the instance `self` and keep a few history variables   *)
(* about the calls made so far.                                            *)
(***************************************************************************)
EXTENDS Integers, Sequences, FiniteSets, TLC

\* T::max_val() of the small unsigned type the state machine is explored on
\* (all values 0..MaxVal are enumerated as arguments).
MaxVal == 6
\* Longest input handed to start_after_highest.
MaxLen == 2
\* u8::MAX, the type of the documented examples.
U8Max == 255

VARIABLES
    max_val,   \* T::max_val() of the instantiated type T
    self,      \* the Sequence instance: [next, incr, max]
    op,        \* the last call: "new" (constructed), "next", "continue_after", "with_increment",
               \* "reload" (saved and read back)
    arg,       \* the argument of the last call (0 when it has none)
    ret,       \* the result of the most recent next() call (None before the first)
    high,      \* the highest value next() has returned so far, -1 when none
    ended,     \* TRUE once a next() call has returned None
    pre,       \* [self, high, ended] as they were before the last call
    skipped,   \* the highest value handed to continue_after so far, -1 when none
    again,     \* TRUE when the last call repeated the continue_after(v) made just before it
    ctor,      \* runs that record the constructor call: its arguments (<<>> otherwise)
    out        \* iteration runs: the values the iterator has yielded, in order

vars == <<max_val, self, op, arg, ret, high, ended, pre, skipped, again, ctor, out>>

----------------------------------------------------------------------------
(* Option<T> *)
None == <<>>
Some(v) == <<v>>

(* SeqNum *)
zero == 0
one == 1
T == 0..max_val

\* Fault: the addition wraps around at the type's width instead of reporting
\* the overflow.
wrapping_add(a, b) == Some((a + b) % (max_val + 1))

checked_add(a, b) == IF a + b > max_val THEN None ELSE Some(a + b)

cmp_max(x, y) == IF y >= x THEN y ELSE x

----------------------------------------------------------------------------
(* Sequence: constructors *)
new == [next |-> zero, incr |-> one, max |-> max_val]

dead == [next |-> zero, incr |-> zero, max |-> max_val]

start_with(val) == [next |-> val, incr |-> one, max |-> max_val]

\* Fault: val + 1 wraps around instead of being checked.
start_after_wrapping(val) ==
    [next |-> (val + one) % (max_val + 1), incr |-> one, max |-> max_val]

start_after(val) ==
    LET r == checked_add(val, one)
    IN  IF r # None
        THEN [next |-> r[1], incr |-> one, max |-> max_val]
        ELSE dead

\* Fault: the fold keeps the later value instead of the larger one.
reduce_last(values) ==
    IF Len(values) = 0 THEN None ELSE Some(values[Len(values)])

RECURSIVE reduce_max(_)
reduce_max(values) ==
    IF Len(values) = 0 THEN None
    ELSE IF Len(values) = 1 THEN Some(values[1])
    ELSE reduce_max(<<cmp_max(values[1], values[2])>> \o SubSeq(values, 3, Len(values)))

start_after_highest(values) ==
    LET m == reduce_max(values)
    IN  start_after(IF m # None THEN m[1] ELSE zero)

with_start_end_increment(start, end, incr) ==
    [next |-> start, incr |-> incr, max |-> end]

(* Sequence: state predicates and methods *)
set_passive(s) == [s EXCEPT !.incr = zero]
is_active(s) == s.incr # zero
is_passive(s) == s.incr = zero

\* Fault: the step is replaced without looking at is_active().
with_increment_unguarded(s, incr) == [s EXCEPT !.incr = incr]

\* Fault: the new step is applied to the pending value at once.
with_increment_eager(s, incr) ==
    IF is_active(s)
    THEN [s EXCEPT !.incr = incr, !.next = s.next + incr - s.incr]
    ELSE s

\* Fault: an increment of 0 is taken as "no change".
with_increment_nonzero(s, incr) ==
    IF is_active(s) /\ incr # zero THEN [s EXCEPT !.incr = incr] ELSE s

with_increment(s, incr) ==
    IF is_active(s) THEN [s EXCEPT !.incr = incr] ELSE s

\* Fault: the candidate is assigned without taking the maximum with `next`.
continue_after_rewind(s, val) ==
    LET candidate == checked_add(val, s.incr)
    IN  IF candidate # None
        THEN [s EXCEPT !.next = candidate[1]]
        ELSE set_passive(s)

\* Fault: the candidate is `val` itself, not `val + incr`.
continue_after_inclusive(s, val) ==
    LET candidate == checked_add(val, zero)
    IN  IF candidate # None
        THEN [s EXCEPT !.next = cmp_max(s.next, candidate[1])]
        ELSE set_passive(s)

\* Fault: the instance is passivated on overflow only after `next` was moved
\* to the type's maximum.
continue_after_saturate(s, val) ==
    LET candidate == checked_add(val, s.incr)
    IN  IF candidate # None
        THEN [s EXCEPT !.next = cmp_max(s.next, candidate[1])]
        ELSE [s EXCEPT !.next = max_val]

\* Fault: a candidate beyond the limit passivates at once.
continue_after_limit(s, val) ==
    LET candidate == checked_add(val, s.incr)
    IN  IF candidate # None /\ candidate[1] <= s.max
        THEN [s EXCEPT !.next = cmp_max(s.next, candidate[1])]
        ELSE set_passive(s)

continue_after(s, val) ==
    LET candidate == checked_add(val, s.incr)
    IN  IF candidate # None
        THEN [s EXCEPT !.next = cmp_max(s.next, candidate[1])]
        ELSE set_passive(s)

\* Fault: the limit test is `>=`, so `max` itself is never produced.
next_excl_end(s) ==
    LET s1 == IF s.next >= s.max THEN set_passive(s) ELSE s
    IN  IF is_passive(s1)
        THEN [self |-> s1, ret |-> None]
        ELSE LET current == s1.next
                 n == checked_add(s1.next, s1.incr)
             IN  [self |-> IF n # None THEN [s1 EXCEPT !.next = n[1]]
                                       ELSE set_passive(s1),
                  ret  |-> Some(current)]

\* Fault: an overflowing advance is ignored instead of passivating.
next_no_passivate(s) ==
    LET s1 == IF s.next > s.max THEN set_passive(s) ELSE s
    IN  IF is_passive(s1)
        THEN [self |-> s1, ret |-> None]
        ELSE LET current == s1.next
                 n == checked_add(s1.next, s1.incr)
             IN  [self |-> IF n # None THEN [s1 EXCEPT !.next = n[1]] ELSE s1,
                  ret  |-> Some(current)]

\* Fault: an overflowing advance passivates and drops the current value.
next_drop_last(s) ==
    LET s1 == IF s.next > s.max THEN set_passive(s) ELSE s
    IN  IF is_passive(s1)
        THEN [self |-> s1, ret |-> None]
        ELSE LET current == s1.next
                 n == checked_add(s1.next, s1.incr)
             IN  IF n # None
                 THEN [self |-> [s1 EXCEPT !.next = n[1]], ret |-> Some(current)]
                 ELSE [self |-> set_passive(s1), ret |-> None]

\* Fault: the limit is not tested.
next_no_limit(s) ==
    IF is_passive(s)
    THEN [self |-> s, ret |-> None]
    ELSE LET current == s.next
             n == checked_add(s.next, s.incr)
         IN  [self |-> IF n # None THEN [s EXCEPT !.next = n[1]]
                                   ELSE set_passive(s),
              ret  |-> Some(current)]

\* Iterator::next: the instance after the call and the value returned.
next(s) ==
    LET s1 == IF s.next > s.max THEN set_passive(s) ELSE s
    IN  IF is_passive(s1)
        THEN [self |-> s1, ret |-> None]
        ELSE LET current == s1.next
                 n == checked_add(s1.next, s1.incr)
             IN  [self |-> IF n # None THEN [s1 EXCEPT !.next = n[1]]
                                       ELSE set_passive(s1),
                  ret  |-> Some(current)]

----------------------------------------------------------------------------
\* Iterator consumption (sum, collect, for): next() until it returns None.
\* `fuel` bounds the number of calls.
RECURSIVE drain(_, _)
drain(s, fuel) ==
    LET r == next(s)
    IN  IF r.ret = None \/ fuel = 0 THEN <<>>
        ELSE <<r.ret[1]>> \o drain(r.self, fuel - 1)

Outputs(s) == drain(s, max_val + 1)

----------------------------------------------------------------------------
(* Every instance a constructor can return. *)
Inputs == UNION {[1..n -> T] : n \in 0..MaxLen}

Constructed ==
    {new}
    \cup {start_with(v) : v \in T}
    \cup {start_after(v) : v \in T}
    \cup {start_after_highest(vs) : vs \in Inputs}
    \cup {with_start_end_increment(s, e, i) : s \in T, e \in T, i \in T}

Fresh ==
    /\ op = "new"
    /\ arg = 0
    /\ ret = None
    /\ high = -1
    /\ ended = FALSE
    /\ pre = [self |-> self, high |-> -1, ended |-> FALSE]
    /\ skipped = -1
    /\ again = FALSE
    /\ out = <<>>

Init ==
    /\ max_val = MaxVal
    /\ self \in Constructed
    /\ ctor = <<>>
    /\ Fresh

\* The arguments the calls are explored with: every value of the small type;
\* on u8 the values the tests and doc examples use.
Vals == IF max_val = U8Max THEN {0, 5, 7, 15, 152, 251, 254} ELSE T
Steps == IF max_val = U8Max THEN {0, 5} ELSE T

Before == [self |-> self, high |-> high, ended |-> ended]

\* One call of next() on the instance, for every caller.
Advance ==
    LET r == next(self)
    IN  /\ self' = r.self
        /\ ret' = r.ret
        /\ op' = "next"
        /\ arg' = 0
        /\ pre' = Before
        /\ high' = IF r.ret # None /\ r.ret[1] > high THEN r.ret[1] ELSE high
        /\ ended' = (ended \/ r.ret = None)
        /\ again' = FALSE
        /\ UNCHANGED <<max_val, skipped, ctor>>

CallNext == Advance /\ UNCHANGED out

CallContinueAfter ==
    \E val \in Vals :
        /\ self' = continue_after(self, val)
        /\ op' = "continue_after"
        /\ arg' = val
        /\ pre' = Before
        /\ skipped' = IF val > skipped THEN val ELSE skipped
        /\ again' = (op = "continue_after" /\ arg = val)
        /\ UNCHANGED <<max_val, ret, high, ended, ctor, out>>

CallWithIncrement ==
    \E incr \in Steps :
        /\ self' = with_increment(self, incr)
        /\ op' = "with_increment"
        /\ arg' = incr
        /\ pre' = Before
        /\ again' = FALSE
        /\ UNCHANGED <<max_val, ret, high, ended, skipped, ctor, out>>

Next == CallNext \/ CallContinueAfter \/ CallWithIncrement

Spec == Init /\ [][Next]_vars

\* The caller keeps calling next(), whatever other calls it makes in between.
SpecLive == Init /\ [][Next]_vars /\ WF_vars(CallNext)

----------------------------------------------------------------------------
(* The same calls on both types: the small type with every constructor and *)
(* argument, and u8 with the instances and arguments of the tests          *)
(* (test_sequence, test_increment, test_exhaust, test_serde).              *)
U8Constructed == {new, with_start_end_increment(22, 99, 11)}

InitDoc ==
    /\ max_val \in {MaxVal, U8Max}
    /\ self \in IF max_val = U8Max THEN U8Constructed ELSE Constructed
    /\ ctor = <<>>
    /\ Fresh

SpecDoc == InitDoc /\ [][Next]_vars

----------------------------------------------------------------------------
(* Construction by start_after(val) or start_after_highest(values), with   *)
(* the call recorded in `ctor`, followed by any calls.                     *)
\* The inputs of start_after_highest whose call is recorded: sequences, in
\* any order and with repetitions, over the ends and the middle of the type.
InputVals == {zero, one, max_val \div 2, max_val - 1, max_val}
CtorInputs == UNION {[1..n -> InputVals] : n \in 0..MaxLen}

InitCtor ==
    /\ max_val = MaxVal
    /\ ctor \in ({"start_after"} \X T) \cup ({"start_after_highest"} \X CtorInputs)
    /\ self = IF ctor[1] = "start_after" THEN start_after(ctor[2])
                                         ELSE start_after_highest(ctor[2])
    /\ Fresh

SpecCtor == InitCtor /\ [][Next]_vars

----------------------------------------------------------------------------
(* Iteration: an instance built by with_start_end_increment is consumed as *)
(* an iterator (`.sum()`), which calls next() until the first None.        *)
U8Args == {<<23, 38, 3>>, <<250, 255, 3>>, <<0, 255, 60>>, <<255, 255, 1>>, <<40, 30, 1>>}

InitIter ==
    /\ max_val \in {MaxVal, U8Max}
    /\ ctor \in IF max_val = U8Max THEN U8Args ELSE T \X T \X T
    /\ self = with_start_end_increment(ctor[1], ctor[2], ctor[3])
    /\ Fresh

IterNext ==
    /\ ~ended
    /\ Advance
    /\ out' = IF ret' # None THEN Append(out, ret'[1]) ELSE out

SpecIter == InitIter /\ [][IterNext]_vars

----------------------------------------------------------------------------
(* Persistence (feature `serde`): the derived Serialize / Deserialize of   *)
(* the struct.  A document is the sequence of its <<key, number>> members, *)
(* a number being written as its decimal digits.                           *)
RECURSIVE to_digits(_)
to_digits(n) == IF n < 10 THEN <<n>> ELSE Append(to_digits(n \div 10), n % 10)

RECURSIVE from_digits(_)
from_digits(d) ==
    IF Len(d) = 1 THEN d[1]
    ELSE 10 * from_digits(SubSeq(d, 1, Len(d) - 1)) + d[Len(d)]

serialize(s) ==
    << <<"next", to_digits(s.next)>>, <<"incr", to_digits(s.incr)>>, <<"max", to_digits(s.max)>> >>

\* The representation older versions wrote: no member `max`.
old_format(s) ==
    << <<"next", to_digits(s.next)>>, <<"incr", to_digits(s.incr)>> >>

member(doc, key) ==
    IF \E j \in 1..Len(doc) : doc[j][1] = key
    THEN Some(from_digits(doc[CHOOSE j \in 1..Len(doc) : doc[j][1] = key][2]))
    ELSE None

\* Fault: a missing `max` defaults to T::default(), which is 0.
deserialize_default_zero(doc) ==
    [next |-> member(doc, "next")[1],
     incr |-> member(doc, "incr")[1],
     max  |-> IF member(doc, "max") # None THEN member(doc, "max")[1] ELSE zero]

deserialize(doc) ==
    [next |-> member(doc, "next")[1],
     incr |-> member(doc, "incr")[1],
     max  |-> IF member(doc, "max") # None THEN member(doc, "max")[1] ELSE max_val]

\* The instance is saved and replaced by the one read back, from the current
\* representation or from the old one.
Reload ==
    \E old \in BOOLEAN :
        /\ self' = deserialize(IF old THEN old_format(self) ELSE serialize(self))
        /\ op' = "reload"
        /\ arg' = IF old THEN 1 ELSE 0
        /\ pre' = Before
        /\ again' = FALSE
        /\ UNCHANGED <<max_val, ret, high, ended, skipped, ctor, out>>

NextSerde == Next \/ Reload

SpecSerde == InitDoc /\ [][NextSerde]_vars

----------------------------------------------------------------------------
(* Properties.  `pre` is the state before the last call, so a predicate    *)
(* over (pre, op, arg, self, ret) that holds in every reachable state      *)
(* holds of every call made in every reachable state.                      *)

\* C1: a passive instance (incr = 0) stays passive under every call, and a
\* next() call on it returns None.
C1_PassiveAbsorbing ==
    is_passive(pre.self) =>
        /\ is_passive(self)
        /\ (op = "next" => ret = None)

\* A passive instance on which with_increment(k), k > 0, has just been called.
C1_Witness ==
    /\ op = "with_increment"
    /\ arg > 0
    /\ is_passive(pre.self)
    /\ pre.self.next <= pre.self.max

\* C2: once a next() call has returned None, the most recent next() call has
\* returned None, whatever continue_after and with_increment calls were made.
C2_ExhaustionTerminal == ended => ret = None

\* A next() call made after None had already been returned and after a
\* continue_after call.
C2_Witness ==
    /\ op = "next"
    /\ pre.ended
    /\ skipped >= 0

\* C3: every value next() returns is strictly greater than every value it
\* returned before.
C3_Monotonic ==
    (op = "next" /\ ret # None) => ret[1] > pre.high

\* The type's maximum returned after an earlier value, and after a
\* continue_after call.
C3_Witness ==
    /\ op = "next"
    /\ ret = Some(max_val)
    /\ pre.high >= 0
    /\ skipped >= 0

\* C4: no value next() returns is less than or equal to a value handed to
\* continue_after before.
C4_NeverAtOrBelowSkipped ==
    (op = "next" /\ ret # None) => ret[1] > skipped

\* A value returned after continue_after(v) with v above everything returned
\* before.
C4_Witness ==
    /\ op = "next"
    /\ ret # None
    /\ skipped > pre.high
    /\ pre.high >= 0

\* C5: no call lowers the field next.
C5_NextNeverDecreases == self.next >= pre.self.next

\* continue_after(v) on an active instance whose next is above v + incr.
C5_Witness ==
    /\ op = "continue_after"
    /\ is_active(pre.self)
    /\ arg + pre.self.incr < pre.self.next

\* C6: continue_after(v) with v at or below a value already returned does not
\* passivate the instance and does not change the values produced afterwards.
C6_SmallerIsNoOp ==
    (op = "continue_after" /\ pre.high >= 0 /\ arg <= pre.high) =>
        /\ is_active(pre.self) => is_active(self)
        /\ Outputs(self) = Outputs(pre.self)

\* C7: continue_after(v) in a state where next exceeds v + incr (no overflow)
\* leaves the instance unchanged; continue_after(v) made right after
\* continue_after(v) changes neither the activity nor the values produced
\* afterwards, and leaves an active instance unchanged.
C7_NoRegression ==
    /\ ( /\ op = "continue_after"
         /\ checked_add(arg, pre.self.incr) # None
         /\ pre.self.next > arg + pre.self.incr )
       => self = pre.self
    /\ again =>
        /\ is_active(self) = is_active(pre.self)
        /\ is_active(pre.self) => self = pre.self
        /\ Outputs(self) = Outputs(pre.self)

\* continue_after(v) repeated on an active instance whose next is above
\* v + incr.
C7_Witness ==
    /\ again
    /\ is_active(pre.self)
    /\ pre.self.next > arg + pre.self.incr
    /\ Outputs(self) # <<>>

\* C8 as stated: incr = 0 exactly when next() returns no value any more.
C8_PassiveIffNoValue == is_passive(self) <=> next(self).ret = None

\* C8 as amended: next() returns None exactly when incr = 0 or next > max
\* before the call; such a state stays one under every call; and after a
\* next() call that returned None incr = 0.
NoValue(s) == is_passive(s) \/ s.next > s.max

C8_PassiveOrBeyond ==
    /\ op = "next" => (ret = None <=> NoValue(pre.self))
    /\ NoValue(pre.self) => NoValue(self)
    /\ (op = "next" /\ ret = None) => is_passive(self)

\* An instance with next > max and incr # 0, right after continue_after.
C8_Witness ==
    /\ op = "continue_after"
    /\ self.next > self.max
    /\ is_active(self)
    /\ pre.self.next <= pre.self.max

\* C9: the iterator of with_start_end_increment(start, end, incr), incr > 0,
\* yields start, start + incr, ... in order, stays at or below end and the
\* type's maximum, and has yielded all those terms when it returns None; on
\* u8, (23, 38, 3) yields 23, 26, 29, 32, 35, 38, of sum 183.
Limit == IF ctor[2] < max_val THEN ctor[2] ELSE max_val

TermCount ==
    IF ctor[1] > Limit THEN 0 ELSE ((Limit - ctor[1]) \div ctor[3]) + 1

RECURSIVE SumSeq(_)
SumSeq(q) == IF q = <<>> THEN 0 ELSE q[1] + SumSeq(Tail(q))

C9_Terms ==
    ctor[3] > 0 =>
        /\ Len(out) <= TermCount
        /\ \A j \in 1..Len(out) : out[j] = ctor[1] + (j - 1) * ctor[3]
        /\ ended => Len(out) = TermCount
        /\ (ended /\ max_val = U8Max /\ ctor = <<23, 38, 3>>) =>
              /\ out = <<23, 26, 29, 32, 35, 38>>
              /\ SumSeq(out) = 183

\* The documented u8 iteration, run to its end.
C9_Witness ==
    /\ ended
    /\ max_val = U8Max
    /\ ctor = <<23, 38, 3>>
    /\ out[Len(out)] = ctor[2]

\* C10: on an active instance whose limit is the type's maximum, a next()
\* call whose advance overflows returns the current next and leaves the
\* instance passive; continue_after(MAX - 1) on such an instance of increment
\* 1 leaves next = MAX and the increment 1, so the following next() returns
\* MAX; and next() on a passive instance returns None.
C10_LastValueAtMax ==
    /\ ( /\ op = "next"
         /\ is_active(pre.self)
         /\ pre.self.max = max_val
         /\ checked_add(pre.self.next, pre.self.incr) = None )
       => (ret = Some(pre.self.next) /\ is_passive(self))
    /\ ( /\ op = "continue_after"
         /\ arg = max_val - 1
         /\ pre.self.incr = one
         /\ pre.self.max = max_val )
       => (self.next = max_val /\ self.incr = one /\ next(self).ret = Some(max_val))
    /\ (op = "next" /\ is_passive(pre.self)) => ret = None

\* MAX returned as the last value after continue_after(MAX - 1), increment 1.
C10_Witness ==
    /\ op = "next"
    /\ ret = Some(max_val)
    /\ is_passive(self)
    /\ skipped = max_val - 1
    /\ pre.self.incr = one
    /\ pre.self.max = max_val

\* C11: continue_after(v) on an active instance: when v + incr exceeds the
\* type's maximum the instance is passive and the following next() returns
\* None; otherwise the following next() returns the larger of the previous
\* next and v + incr when that is at most max.  On u8: after 0, 1 from new(),
\* continue_after(5) gives 6; from next = 7, continue_after(15), (7), (0)
\* give 16; with increment 5 after 0, 5, 10, continue_after(152) gives 157
\* then 162, and continue_after(251) gives None.
Larger(a, b) == IF a > b THEN a ELSE b

C11_ContinueAfterResult ==
    (op = "continue_after" /\ is_active(pre.self)) =>
        LET p == pre.self
            sum == arg + p.incr
        IN  /\ sum > max_val => (is_passive(self) /\ next(self).ret = None)
            /\ (sum <= max_val /\ Larger(p.next, sum) <= p.max) =>
                  next(self).ret = Some(Larger(p.next, sum))
            /\ (max_val = U8Max /\ p = [next |-> 2, incr |-> 1, max |-> U8Max] /\ arg = 5)
                  => next(self).ret = Some(6)
            /\ (max_val = U8Max /\ p = [next |-> 7, incr |-> 1, max |-> U8Max] /\ arg = 15)
                  => next(self).ret = Some(16)
            /\ (max_val = U8Max /\ p = [next |-> 16, incr |-> 1, max |-> U8Max] /\ arg \in {7, 0})
                  => next(self).ret = Some(16)
            /\ (max_val = U8Max /\ p = [next |-> 15, incr |-> 5, max |-> U8Max] /\ arg = 152)
                  => drain(self, 2) = <<157, 162>>
            /\ (max_val = U8Max /\ p.incr = 5 /\ arg = 251) => next(self).ret = None

\* The u8 run of test_increment: 162 returned after continue_after(152) with
\* increment 5, then continue_after(251).
C11_Witness ==
    /\ max_val = U8Max
    /\ op = "continue_after"
    /\ arg = 251
    /\ pre.self = [next |-> 167, incr |-> 5, max |-> U8Max]
    /\ pre.high = 162
    /\ is_passive(self)

\* C12: with_increment(k), k > 0, on an active instance leaves next and max
\* unchanged and sets the step to k: the first value produced afterwards is
\* the one that would have been produced without the call, and the value
\* after it is the first plus k when that neither overflows nor exceeds max.
\* On u8, new().with_increment(5) yields 0, 5, 10.
C12_DelayedIncrement ==
    (op = "with_increment" /\ arg > 0 /\ is_active(pre.self)) =>
        LET p == pre.self
            first == next(self)
        IN  /\ self.next = p.next
            /\ self.max = p.max
            /\ self.incr = arg
            /\ first.ret = next(p).ret
            /\ (first.ret # None /\ p.next + arg <= max_val /\ p.next + arg <= p.max) =>
                  next(first.self).ret = Some(p.next + arg)
            /\ (max_val = U8Max /\ p = new /\ arg = 5) => drain(self, 3) = <<0, 5, 10>>

\* u8: with_increment(5) called after values were consumed with step 1, with
\* a pending value and room for the value after it.
C12_Witness ==
    /\ max_val = U8Max
    /\ op = "with_increment"
    /\ arg = 5
    /\ pre.self.incr = 1
    /\ pre.high >= 0
    /\ drain(self, 2) = <<pre.self.next, pre.self.next + 5>>

\* C13: with_increment(0) leaves the instance passive with no value left to
\* produce, the pending one included; and a passive instance stays passive
\* under every call, with_increment(k) with k > 0 included, and returns None
\* from next().
C13_ZeroIncrementKills ==
    /\ (op = "with_increment" /\ arg = 0) =>
          /\ is_passive(self)
          /\ next(self).ret = None
          /\ Outputs(self) = <<>>
    /\ is_passive(pre.self) =>
          /\ is_passive(self)
          /\ Outputs(self) = <<>>
          /\ (op = "next" => ret = None)

\* with_increment(0) on an active instance that had a pending value.
C13_Witness ==
    /\ op = "with_increment"
    /\ arg = 0
    /\ is_active(pre.self)
    /\ Outputs(pre.self) # <<>>

\* C14: start_after(v) returns, for v below the type's maximum, the instance
\* start_with(v + 1) (next v + 1, increment 1, limit MAX), whose first value
\* is v + 1; for v = MAX it returns a passive instance, and next() returns
\* None from the first call on.
C14_StartAfter ==
    ctor[1] = "start_after" =>
        LET v == ctor[2]
        IN  /\ (op = "new" /\ v < max_val) =>
                  /\ self = start_with(v + 1)
                  /\ self = [next |-> v + 1, incr |-> 1, max |-> max_val]
                  /\ next(self).ret = Some(v + 1)
            /\ (op = "new" /\ v = max_val) => (self.incr = 0 /\ next(self).ret = None)
            /\ (op = "next" /\ v = max_val) => ret = None
            /\ (op = "next" /\ ret # None) => ret[1] > v

\* next() called on the instance start_after(MAX) returned, after other calls.
C14_Witness ==
    /\ ctor = <<"start_after", max_val>>
    /\ op = "next"
    /\ pre.ended
    /\ skipped >= 0

\* C15: start_after_highest(values) returns start_after(m), m the maximum of
\* the input or zero for an empty input: its first value is m + 1 (1 for an
\* empty input), it is passive when the input contains MAX, and every value
\* it ever produces is greater than every input value.
InputSet == {ctor[2][j] : j \in 1..Len(ctor[2])}

Highest == IF InputSet = {} THEN 0 ELSE CHOOSE m \in InputSet : \A x \in InputSet : x <= m

C15_StartAfterHighest ==
    ctor[1] = "start_after_highest" =>
        /\ op = "new" =>
              /\ self = start_after(Highest)
              /\ Highest < max_val =>
                    (self.incr = 1 /\ self.max = max_val /\ next(self).ret = Some(Highest + 1))
              /\ ctor[2] = <<>> => next(self).ret = Some(1)
        /\ max_val \in InputSet => (is_passive(self) /\ (op = "next" => ret = None))
        /\ (op = "next" /\ ret # None) => \A x \in InputSet : ret[1] > x

\* A value produced by the instance built from an input of two values in
\* descending order.
C15_Witness ==
    /\ ctor[1] = "start_after_highest"
    /\ Len(ctor[2]) = 2
    /\ ctor[2][1] > ctor[2][2]
    /\ op = "next"
    /\ ret = Some(ctor[2][1] + 1)

\* C16: an instance read back from its saved fields equals the saved one, so
\* it produces the same values under the same calls; read back from a
\* document without `max` it has the saved next and incr and max = the type's
\* maximum, and produces next, next + incr, ... without an explicit limit.
\* On u8: {next 33, incr 11, max 99} is written as those three members and
\* yields 33, 44, ..., 99 and then None; {next 88, incr 11} yields 88, 99,
\* 110, 121.
Few == 4

C16_RoundTrip ==
    op = "reload" =>
        LET p == pre.self
        IN  /\ arg = 0 =>
                  /\ self = p
                  /\ next(self) = next(p)
                  /\ drain(self, Few) = drain(p, Few)
            /\ arg = 1 =>
                  /\ self = [p EXCEPT !.max = max_val]
                  /\ \A j \in 1..Few :
                        (is_active(p) /\ p.next + (j - 1) * p.incr <= max_val) =>
                            /\ Len(drain(self, Few)) >= j
                            /\ drain(self, Few)[j] = p.next + (j - 1) * p.incr
            /\ (max_val = U8Max /\ p = [next |-> 33, incr |-> 11, max |-> 99]) =>
                  /\ serialize(p) = << <<"next", <<3, 3>> >>, <<"incr", <<1, 1>> >>,
                                       <<"max", <<9, 9>> >> >>
                  /\ arg = 0 => Outputs(self) = <<33, 44, 55, 66, 77, 88, 99>>
            /\ (max_val = U8Max /\ arg = 1 /\ p.next = 88 /\ p.incr = 11) =>
                  drain(self, 4) = <<88, 99, 110, 121>>

\* u8: the instance of test_serde, saved at next = 88 with limit 99 and read
\* back from the document without `max`, has produced 110.
C16_Witness ==
    /\ max_val = U8Max
    /\ op = "next"
    /\ ret = Some(110)
    /\ self = [next |-> 121, incr |-> 11, max |-> U8Max]
    /\ pre.high = 99

\* C17: the fields next, incr and max and every value returned stay within
\* 0..MAX; a value returned is the field next as it was, the advance is the
\* true sum next + incr, and continue_after(v) on an active instance that
\* stays active leaves the larger of next and the true sum v + incr.
C17_NoOverflow ==
    /\ self.next \in T
    /\ self.incr \in T
    /\ self.max \in T
    /\ ret # None => ret[1] \in T
    /\ (op = "next" /\ ret # None) =>
          /\ ret[1] = pre.self.next
          /\ is_active(self) => self.next = pre.self.next + pre.self.incr
          /\ is_passive(self) => pre.self.next + pre.self.incr > max_val
    /\ (op = "continue_after" /\ is_active(pre.self)) =>
          /\ is_active(self) => self.next = Larger(pre.self.next, arg + pre.self.incr)
          /\ is_passive(self) => arg + pre.self.incr > max_val

\* A next() call whose advance next + incr does not fit the type, with a step
\* above 1.
C17_Witness ==
    /\ op = "next"
    /\ ret # None
    /\ pre.self.incr > 1
    /\ pre.self.next + pre.self.incr > max_val
    /\ self.next = pre.self.next

\* C18: no call changes max; no value returned exceeds max; next() returns
\* None when next is beyond max, as after a continue_after that moved next
\* beyond it.
C18_LimitRespected ==
    /\ self.max = pre.self.max
    /\ (op = "next" /\ ret # None) => ret[1] <= self.max
    /\ (op = "next" /\ pre.self.next > pre.self.max) => ret = None
    /\ (op = "continue_after" /\ self.next > self.max) => next(self).ret = None

\* None returned by an active instance whose next a continue_after had moved
\* beyond a limit below the type's maximum.
C18_Witness ==
    /\ op = "next"
    /\ ret = None
    /\ is_active(pre.self)
    /\ pre.self.max < max_val
    /\ pre.self.next > pre.self.max
    /\ pre.self.next = skipped + pre.self.incr
    /\ pre.high >= 0

\* C19: when the caller keeps calling next(), next() eventually returns None,
\* whatever continue_after and with_increment calls are interleaved; and in
\* every reachable state, calling next() repeatedly yields at most
\* (max - next) / incr + 1 values on an active instance with next <= max,
\* and none otherwise.
Remaining(s) ==
    IF is_active(s) /\ s.next <= s.max THEN ((s.max - s.next) \div s.incr) + 1 ELSE 0

C19_Finite ==
    /\ <>ended
    /\ [](Len(drain(self, max_val + 2)) <= Remaining(self))

\* None returned after values were produced and other calls were made.
C19_Witness ==
    /\ op = "next"
    /\ ret = None
    /\ ~pre.ended
    /\ high >= 1
    /\ skipped >= 0

\* C20: a call takes an active instance to passive exactly when it is
\* continue_after(v) with v + incr overflowing, next() with next > max,
\* next() whose advance next + incr overflows, or with_increment(0); every
\* other call leaves an active instance active.
Passivating ==
    LET p == pre.self
    IN  \/ op = "continue_after" /\ checked_add(arg, p.incr) = None
        \/ op = "next" /\ p.next > p.max
        \/ op = "next" /\ checked_add(p.next, p.incr) = None
        \/ op = "with_increment" /\ arg = 0

C20_PassivationCauses ==
    (op # "new" /\ is_active(pre.self)) => (is_passive(self) <=> Passivating)

\* continue_after that passivated an instance which had produced values and
\* still had one pending.
C20_Witness ==
    /\ op = "continue_after"
    /\ is_active(pre.self)
    /\ is_passive(self)
    /\ pre.self.next <= pre.self.max
    /\ pre.high >= 0

====
